---- MODULE Spec2Model ----
(***************************************************************************)
(* Model of the lagged-feature linear-regression strategy (mrlinear.ts):   *)
(* MinMaxScaler, the indicator helpers, prepareLaggedData and              *)
(* mrlRunStrategy with its caller main.                                    *)
(*                                                                         *)
(* Numbers are JavaScript numbers, i.e. binary floating point with         *)
(* round-to-nearest-even after every operation.  The model keeps that      *)
(* arithmetic but with a MantissaBits-bit significand instead of 53 and an *)
(* unbounded exponent.  A finite number is <<m, e>> = m * 2^e with m odd   *)
(* (or <<0, 0>>); NaN and the infinities are 3-tuples.                     *)
(***************************************************************************)
EXTENDS Integers, Sequences, FiniteSets, TLC

\* ------------------------------------------------------------------ bounds
MantissaBits == 8
MaxRows == 3

\* ------------------------------------------------- floating-point numbers
NaN == <<0, 0, 1>>
PosInf == <<1, 0, 1>>
NegInf == <<-1, 0, 1>>

IsFinite(a) == Len(a) = 2
IsNaN(a) == a = NaN

Abs(x) == IF x < 0 THEN -x ELSE x
MinInt(x, y) == IF x < y THEN x ELSE y

RECURSIVE Norm(_, _)
Norm(m, e) ==
    IF m = 0 THEN <<0, 0>>
    ELSE IF m % 2 = 0 THEN Norm(m \div 2, e + 1)
    ELSE <<m, e>>

RECURSIVE BitLen(_)
BitLen(n) == IF n = 0 THEN 0 ELSE 1 + BitLen(n \div 2)

\* round the magnitude n * 2^e to MantissaBits significant bits, ties to even
RoundMag(n, e) ==
    LET sh == BitLen(n) - MantissaBits
    IN  IF sh <= 0 THEN <<n, e>>
        ELSE LET q == n \div (2 ^ sh)
                 r == n % (2 ^ sh)
                 half == 2 ^ (sh - 1)
                 up == r > half \/ (r = half /\ q % 2 = 1)
             IN  <<IF up THEN q + 1 ELSE q, e + sh>>

\* the number nearest to m * 2^e
Fl(m, e) ==
    LET r == RoundMag(Abs(m), e)
    IN  Norm(IF m < 0 THEN -r[1] ELSE r[1], r[2])

\* an integer literal or an integer-valued input
Num(n) == Fl(n, 0)

Sign(a) == IF a[1] < 0 THEN -1 ELSE IF a[1] > 0 THEN 1 ELSE 0

FNeg(a) == IF IsFinite(a) THEN <<-a[1], a[2]>> ELSE <<-a[1], 0, 1>>

\* a + b
FAdd(a, b) ==
    IF IsNaN(a) \/ IsNaN(b) THEN NaN
    ELSE IF ~IsFinite(a) /\ ~IsFinite(b) THEN (IF a = b THEN a ELSE NaN)
    ELSE IF ~IsFinite(a) THEN a
    ELSE IF ~IsFinite(b) THEN b
    ELSE LET e == MinInt(a[2], b[2])
         IN  Fl(a[1] * (2 ^ (a[2] - e)) + b[1] * (2 ^ (b[2] - e)), e)

\* a - b
FSub(a, b) == FAdd(a, FNeg(b))

\* a * b
FMul(a, b) ==
    IF IsNaN(a) \/ IsNaN(b) THEN NaN
    ELSE IF ~IsFinite(a) \/ ~IsFinite(b)
         THEN (IF Sign(a) * Sign(b) = 0 THEN NaN
               ELSE IF Sign(a) * Sign(b) > 0 THEN PosInf ELSE NegInf)
    ELSE Fl(a[1] * b[1], a[2] + b[2])

\* a / b
FDiv(a, b) ==
    IF IsNaN(a) \/ IsNaN(b) THEN NaN
    ELSE IF ~IsFinite(a) /\ ~IsFinite(b) THEN NaN
    ELSE IF ~IsFinite(a)
         THEN (IF Sign(a) * (IF Sign(b) < 0 THEN -1 ELSE 1) > 0 THEN PosInf ELSE NegInf)
    ELSE IF ~IsFinite(b) THEN <<0, 0>>
    ELSE IF b[1] = 0
         THEN (IF a[1] = 0 THEN NaN ELSE IF a[1] > 0 THEN PosInf ELSE NegInf)
    ELSE IF a[1] = 0 THEN <<0, 0>>
    ELSE LET na == Abs(a[1])
             nb == Abs(b[1])
             need == MantissaBits + 2 + BitLen(nb) - BitLen(na)
             s == IF need > 0 THEN need ELSE 0
             q == (na * (2 ^ s)) \div nb
             sticky == IF (na * (2 ^ s)) % nb = 0 THEN 0 ELSE 1
             sg == Sign(a) * Sign(b)
         IN  Fl(sg * (2 * q + sticky), a[2] - b[2] - s - 1)

\* a < b (false when either side is NaN)
FLt(a, b) ==
    IF IsNaN(a) \/ IsNaN(b) THEN FALSE
    ELSE IF a = b THEN FALSE
    ELSE IF a = NegInf \/ b = PosInf THEN TRUE
    ELSE IF a = PosInf \/ b = NegInf THEN FALSE
    ELSE LET e == MinInt(a[2], b[2])
         IN  a[1] * (2 ^ (a[2] - e)) < b[1] * (2 ^ (b[2] - e))

FLe(a, b) == FLt(a, b) \/ (a = b /\ ~IsNaN(a))

\* Math.abs, Math.min, Math.max
FAbs(a) == IF IsNaN(a) THEN NaN ELSE IF a[1] < 0 THEN FNeg(a) ELSE a
FMin(a, b) == IF IsNaN(a) \/ IsNaN(b) THEN NaN ELSE IF FLt(b, a) THEN b ELSE a
FMax(a, b) == IF IsNaN(a) \/ IsNaN(b) THEN NaN ELSE IF FLt(a, b) THEN b ELSE a

Half == FDiv(Num(1), Num(2))

\* array[j] for a 0-based index j; reading past the end gives undefined,
\* which every arithmetic operator turns into NaN
At(arr, j) == IF j >= 0 /\ j < Len(arr) THEN arr[j + 1] ELSE NaN

\* ------------------------------------------------------------ MinMaxScaler
\* constructor(data): per-column min and max, empty for an empty matrix
RECURSIVE ColFold(_, _, _, _)
ColFold(data, j, isMin, acc) ==
    IF data = <<>> THEN acc
    ELSE ColFold(Tail(data), j, isMin,
                 IF isMin THEN FMin(acc, At(Head(data), j))
                          ELSE FMax(acc, At(Head(data), j)))

NewMinMaxScaler_MinFromZero(data) ==
    IF Len(data) = 0 THEN [min |-> <<>>, max |-> <<>>]
    ELSE LET numFeatures == Len(data[1])
         IN  [min |-> [j \in 1..numFeatures |-> ColFold(data, j - 1, TRUE, Num(0))],
              max |-> [j \in 1..numFeatures |-> ColFold(data, j - 1, FALSE, NegInf)]]

NewMinMaxScaler(data) ==
    IF Len(data) = 0 THEN [min |-> <<>>, max |-> <<>>]
    ELSE LET numFeatures == Len(data[1])
         IN  [min |-> [j \in 1..numFeatures |-> ColFold(data, j - 1, TRUE, PosInf)],
              max |-> [j \in 1..numFeatures |-> ColFold(data, j - 1, FALSE, NegInf)]]

\* scale(dataPoint)
ScaleValue_NoMidpoint(sc, value, j) ==
    LET range == FSub(At(sc.max, j), At(sc.min, j))
    IN  FDiv(FSub(value, At(sc.min, j)), range)

ScaleValue(sc, value, j) ==
    LET range == FSub(At(sc.max, j), At(sc.min, j))
    IN  IF range = <<0, 0>> THEN Half
        ELSE FDiv(FSub(value, At(sc.min, j)), range)

scale(sc, dataPoint) ==
    [j \in 1..Len(dataPoint) |-> ScaleValue(sc, dataPoint[j], j - 1)]

\* scaleAll(data)
scaleAll(sc, data) == [i \in 1..Len(data) |-> scale(sc, data[i])]

\* inverseScale(scaledDataPoint)
InverseValue_NoMin(sc, scaledValue, j) ==
    LET range == FSub(At(sc.max, j), At(sc.min, j))
    IN  FMul(scaledValue, range)

InverseValue(sc, scaledValue, j) ==
    LET range == FSub(At(sc.max, j), At(sc.min, j))
    IN  FAdd(FMul(scaledValue, range), At(sc.min, j))

inverseScale(sc, scaledDataPoint) ==
    [j \in 1..Len(scaledDataPoint) |-> InverseValue(sc, scaledDataPoint[j], j - 1)]

\* -------------------------------------------------- configuration constants
LOOKBACK_PERIOD == 14
SHORT_PERIOD == 5

\* ------------------------------------------------------ indicator helpers
\* data[i] for the 0-based index i of the source
Bar(data, i) == data[i + 1]

calculateTrueRange(today, yesterdayClose) ==
    LET highLow == FSub(today.high, today.low)
        highPrevClose == FAbs(FSub(today.high, yesterdayClose))
        lowPrevClose == FAbs(FSub(today.low, yesterdayClose))
    IN  FMax(FMax(highLow, highPrevClose), lowPrevClose)

\* the loop of calculateATR: sumTR over i = lo .. hi-1, in that order
RECURSIVE SumTR_OwnClose(_, _, _, _)
SumTR_OwnClose(data, i, hi, sumTR) ==
    IF i >= hi THEN sumTR
    ELSE SumTR_OwnClose(data, i + 1, hi,
             FAdd(sumTR, calculateTrueRange(Bar(data, i), Bar(data, i).close)))

RECURSIVE SumTR(_, _, _, _)
SumTR(data, i, hi, sumTR) ==
    IF i >= hi THEN sumTR
    ELSE LET yesterdayClose == IF i = 0 THEN Bar(data, i).close
                                        ELSE Bar(data, i - 1).close
         IN  SumTR(data, i + 1, hi,
                   FAdd(sumTR, calculateTrueRange(Bar(data, i), yesterdayClose)))

calculateATR(data, index, period) ==
    IF index < period THEN Num(0)
    ELSE FDiv(SumTR(data, index - period, index, Num(0)), Num(period))

\* the loop of calculateSMA: sum of closes over i = lo .. hi-1
RECURSIVE SumClose_Inclusive(_, _, _, _)
SumClose_Inclusive(data, i, hi, sum) ==
    IF i > hi \/ i >= Len(data) THEN sum
    ELSE SumClose_Inclusive(data, i + 1, hi, FAdd(sum, Bar(data, i).close))

RECURSIVE SumClose(_, _, _, _)
SumClose(data, i, hi, sum) ==
    IF i >= hi THEN sum
    ELSE SumClose(data, i + 1, hi, FAdd(sum, Bar(data, i).close))

calculateSMA(data, index, period) ==
    IF index < period
    THEN (IF index >= 0 /\ index < Len(data)
             /\ Bar(data, index).close # Num(0) /\ ~IsNaN(Bar(data, index).close)
          THEN Bar(data, index).close
          ELSE Num(0))
    ELSE FDiv(SumClose(data, index - period, index, Num(0)), Num(period))

\* the loop of calculateRSI: <<avgGain, avgLoss>> summed over i = lo .. hi
RECURSIVE SumGainLoss(_, _, _, _)
SumGainLoss(data, i, hi, acc) ==
    IF i > hi THEN acc
    ELSE LET change == FSub(Bar(data, i).close, Bar(data, i - 1).close)
         IN  SumGainLoss(data, i + 1, hi,
                 IF FLt(Num(0), change)
                 THEN <<FAdd(acc[1], change), acc[2]>>
                 ELSE <<acc[1], FAdd(acc[2], FAbs(change))>>)

calculateRSI_NoZeroLossGuard(data, index, period) ==
    IF index < period THEN Num(50)
    ELSE LET sums == SumGainLoss(data, index - period + 1, index, <<Num(0), Num(0)>>)
             avgGain == FDiv(sums[1], Num(period))
             avgLoss == FDiv(sums[2], Num(period))
             RS == FDiv(avgGain, avgLoss)
         IN  FSub(Num(100), FDiv(Num(100), FAdd(Num(1), RS)))

calculateRSI(data, index, period) ==
    IF index < period THEN Num(50)
    ELSE LET sums == SumGainLoss(data, index - period + 1, index, <<Num(0), Num(0)>>)
             avgGain == FDiv(sums[1], Num(period))
             avgLoss == FDiv(sums[2], Num(period))
         IN  IF avgLoss = Num(0) THEN Num(100)
             ELSE LET RS == FDiv(avgGain, avgLoss)
                  IN  FSub(Num(100), FDiv(Num(100), FAdd(Num(1), RS)))

\* ------------------------------------------------------ prepareLaggedData
\* the feature row and the label pushed by the loop body for index i
LaggedFeatures_RsiAtI(data, i) ==
    LET today == Bar(data, i)
        yesterday == Bar(data, i - 1)
        yesterdayPP == FDiv(FAdd(FAdd(yesterday.high, yesterday.low), yesterday.close), Num(3))
        atr_t_minus_1 == calculateATR(data, i, LOOKBACK_PERIOD)
        rsi_t_minus_1 == calculateRSI(data, i, LOOKBACK_PERIOD)
        sma_t_minus_1 == calculateSMA(data, i, SHORT_PERIOD)
    IN  <<today.open, yesterday.close, yesterday.high, yesterday.low, yesterdayPP,
          yesterday.volume, atr_t_minus_1, rsi_t_minus_1, sma_t_minus_1>>

LaggedFeatures(data, i) ==
    LET today == Bar(data, i)
        yesterday == Bar(data, i - 1)
        yesterdayPP == FDiv(FAdd(FAdd(yesterday.high, yesterday.low), yesterday.close), Num(3))
        atr_t_minus_1 == calculateATR(data, i, LOOKBACK_PERIOD)
        rsi_t_minus_1 == calculateRSI(data, i - 1, LOOKBACK_PERIOD)
        sma_t_minus_1 == calculateSMA(data, i, SHORT_PERIOD)
    IN  <<today.open, yesterday.close, yesterday.high, yesterday.low, yesterdayPP,
          yesterday.volume, atr_t_minus_1, rsi_t_minus_1, sma_t_minus_1>>

LaggedLabel_Yesterday(data, i) == <<Bar(data, i - 1).close>>

LaggedLabel(data, i) == <<Bar(data, i).close>>

prepareLaggedData_StartLate(data) ==
    IF Len(data) <= LOOKBACK_PERIOD THEN [X |-> <<>>, Y |-> <<>>]
    ELSE [X |-> [k \in 1..(Len(data) - LOOKBACK_PERIOD - 1) |->
                    LaggedFeatures(data, LOOKBACK_PERIOD + k)],
          Y |-> [k \in 1..(Len(data) - LOOKBACK_PERIOD - 1) |->
                    LaggedLabel(data, LOOKBACK_PERIOD + k)]]

prepareLaggedData_LongerGuard(data) ==
    IF Len(data) <= LOOKBACK_PERIOD + 1 THEN [X |-> <<>>, Y |-> <<>>]
    ELSE [X |-> [k \in 1..(Len(data) - LOOKBACK_PERIOD) |->
                    LaggedFeatures(data, LOOKBACK_PERIOD + k - 1)],
          Y |-> [k \in 1..(Len(data) - LOOKBACK_PERIOD) |->
                    LaggedLabel(data, LOOKBACK_PERIOD + k - 1)]]

prepareLaggedData(data) ==
    IF Len(data) <= LOOKBACK_PERIOD THEN [X |-> <<>>, Y |-> <<>>]
    ELSE [X |-> [k \in 1..(Len(data) - LOOKBACK_PERIOD) |->
                    LaggedFeatures(data, LOOKBACK_PERIOD + k - 1)],
          Y |-> [k \in 1..(Len(data) - LOOKBACK_PERIOD) |->
                    LaggedLabel(data, LOOKBACK_PERIOD + k - 1)]]

\* flattenY(Y)
flattenY(Y) == [k \in 1..Len(Y) |-> <<Y[k][1]>>]

\* the external solver (ml-regression-multivariate-linear) is not part of the
\* source; it is taken as the capability fit(X, y) -> model,
\* model.predict(rows) -> y: fitting keeps the training matrices, predicting
\* is some fixed function of model and row (here: label mean plus the
\* distance of the first feature from its training mean)
ColMean(M, j) ==
    LET SumCol[k \in 0..Len(M)] ==
            IF k = 0 THEN Num(0) ELSE FAdd(SumCol[k - 1], M[k][j])
    IN  FDiv(SumCol[Len(M)], Num(Len(M)))

NewMLR(X, Y) == [X |-> X, Y |-> Y]

MLRpredict(regr, rows) ==
    [k \in 1..Len(rows) |->
        <<FAdd(ColMean(regr.Y, 1), FSub(rows[k][1], ColMean(regr.X, 1)))>>]

\* ------------------------------------------------------------------ inputs
MaxBars == 17
MaxRuns == 2

Undefined == <<>>

MkBar(o, h, l, c, v) ==
    [open |-> Num(o), high |-> Num(h), low |-> Num(l), close |-> Num(c), volume |-> Num(v)]

\* an ordinary day with index k, and two unusual days
BaseBar(k) == MkBar(10 + (k % 3), 14 + (k % 2), 8 - (k % 2), 11 + (k % 4), 20 + k)
SpikeBars == {MkBar(30, 40, 2, 5, 1), MkBar(3, 36, 1, 33, 64)}

\* histories of n ordinary days, and the same with one unusual day
BaseSeq(n) == [k \in 1..n |-> BaseBar(k - 1)]
BarSeqs ==
    UNION {{BaseSeq(n)} \cup {[BaseSeq(n) EXCEPT ![p] = b] : p \in 1..n, b \in SpikeBars}
           : n \in 0..MaxBars}

\* histories handed to mrlRunStrategy: ordinary days when too short to run,
\* one unusual day anywhere when long enough
RunSpike == MkBar(30, 40, 2, 5, 1)
\* the history bars with another close, high, low and volume on its last day
OtherEvaluationDay(bars) ==
    [bars EXCEPT ![Len(bars)] = [RunSpike EXCEPT !.open = bars[Len(bars)].open]]
RunBarSeqs ==
    UNION {{BaseSeq(n)} \cup
           (IF n < LOOKBACK_PERIOD + 2 THEN {}
            ELSE {[BaseSeq(n) EXCEPT ![p] = RunSpike] : p \in 1..n})
           : n \in 0..MaxBars}
    \cup {OtherEvaluationDay(BaseSeq(LOOKBACK_PERIOD + 2))}

OpenPrices == {Undefined, Num(0), Num(12)}

\* short histories and periods for single calls of the indicator helpers:
\* days closing at 11, above at 13 and below at 5
MaxIndBars == 4
MaxPeriod == 3
IndBars ==
    {MkBar(10, 14, 8, 11, 20), MkBar(12, 16, 9, 13, 22), MkBar(30, 40, 2, 5, 1)}
IndSeqs == UNION {[1..n -> IndBars] : n \in 1..MaxIndBars}
Periods == 1..MaxPeriod

\* what the spreadsheet holds in the OHLCV ranges: rows of bars, newest first;
\* a cell that is blank or not a number parses to NaN. Besides full sheets:
\* one blank volume cell in the first row, and one blank cell in every column,
\* the open's in the first row and the others' in the last
Reverse(arr) == [k \in 1..Len(arr) |-> arr[Len(arr) + 1 - k]]
SheetLengths == {0, LOOKBACK_PERIOD + 1, LOOKBACK_PERIOD + 2}
BlankBut(bar, field) ==
    [f \in DOMAIN bar |-> IF f = field THEN bar[f] ELSE NaN]
Sheets ==
    {Reverse(BaseSeq(n)) : n \in SheetLengths}
    \cup {[Reverse(BaseSeq(n)) EXCEPT ![1].volume = NaN] : n \in SheetLengths \ {0}}
    \cup {[Reverse(BaseSeq(MaxBars)) EXCEPT ![1].open = NaN,
                                            ![MaxBars] = BlankBut(@, "open")]}
\* the five cells getCellValue reads, and the quote they hold once loaded
NumCells == 5
Quote ==
    [open |-> Num(12), close |-> Num(13), pp |-> Num(12), high |-> Num(14),
     low |-> Num(11)]
\* the cells in the order getCellValue reads them
CellValues == <<Quote.open, Quote.close, Quote.pp, Quote.high, Quote.low>>
\* milliseconds that pass while a request or a timer is awaited
Delays == {0, 1000, 16000}
\* spreadsheet ids passed to getInstance, the configured one first
SPREADSHEET_ID == "Config.SPREADSHEET_ID"
SheetIds == {SPREADSHEET_ID, "another id"}
MaxCalls == 3

\* fitting matrices: up to MaxRows rows of one width
ScalerVals == {Num(0), Num(15), Num(22)}
ScalerRows(w) ==
    IF w = 1 THEN {<<a>> : a \in ScalerVals}
    ELSE {<<a, b>> : a \in ScalerVals, b \in {Num(0), Num(15)}}
Matrices ==
    {<<>>} \cup UNION {UNION {[1..n -> ScalerRows(w)] : n \in 1..MaxRows} : w \in 1..2}
\* rows handed to scale / inverseScale by a caller, of any width up to 3
ProbeRows ==
    {<<Num(15)>>, <<Num(22), Num(0)>>, <<Num(22), Num(15), Num(0)>>, <<Half, Half>>}

\* ------------------------------------------------------------------- state
VARIABLES
    \* a MinMaxScaler object and the last call made on it
    sData, scaler, sCall, sArg, sRet, sOrig, sThrown,
    \* a call of prepareLaggedData
    data, built,
    \* mrlRunStrategy: arguments, position, locals, console, completed runs
    excelData, newOpenPrice, pc, console,
    dayToEvaluate, dayProvidingLaggedFeatures, trainingSet, X_raw, Y_raw,
    featureScaler, labelScaler, X_scaled, Y_scaled, regression,
    lastDayFeatures_raw, lastDayFeatures_scaled, predictedClose_scaled,
    predictedClose, runs,
    \* a call of calculateRSI or calculateATR on the history data
    iCall, iIndex, iPeriod, iRet,
    \* main: position, result of getCellValue, polling attempts and clock,
    \* result of getOhlcvArrays, what the data source has failed with
    mPc, val, attempts, elapsed, ohlcv, failures,
    \* GoogleSheetManager: the static instance, how many managers have been
    \* constructed, what the last getInstance call returned, the ids passed to
    \* getInstance so far, the cell values parsed by the last polling read
    \* the rows of the OHLCV ranges at the time getOhlcvArrays read them
    instance, constructed, handle, ids, currentValues, sheetRows

scalerVars == <<sData, scaler, sCall, sArg, sRet, sOrig, sThrown>>
buildVars == <<data, built>>
argVars == <<excelData, newOpenPrice>>
splitVars == <<dayToEvaluate, dayProvidingLaggedFeatures, trainingSet>>
rawVars == <<X_raw, Y_raw>>
fitVars == <<featureScaler, labelScaler>>
trainVars == <<X_scaled, Y_scaled, regression>>
predVars == <<lastDayFeatures_raw, lastDayFeatures_scaled, predictedClose_scaled,
              predictedClose>>
localVars == <<splitVars, rawVars, fitVars, trainVars, predVars>>
runVars == <<argVars, pc, console, localVars, runs>>
indVars == <<iCall, iIndex, iPeriod, iRet>>
mainVars == <<mPc, val, attempts, elapsed, ohlcv, failures>>
sheetVars == <<instance, constructed, handle, ids, currentValues, sheetRows>>
vars == <<scalerVars, buildVars, runVars, indVars, mainVars, sheetVars>>

None == <<>>

ScalerIdle ==
    /\ sData = <<>> /\ scaler = None /\ sCall = "none"
    /\ sArg = <<>> /\ sRet = <<>> /\ sOrig = <<>> /\ sThrown = FALSE
BuildIdle == data = <<>> /\ built = None
LocalsFresh ==
    /\ dayToEvaluate = None /\ dayProvidingLaggedFeatures = None /\ trainingSet = None
    /\ X_raw = None /\ Y_raw = None
    /\ featureScaler = None /\ labelScaler = None
    /\ X_scaled = None /\ Y_scaled = None /\ regression = None
    /\ lastDayFeatures_raw = None /\ lastDayFeatures_scaled = None
    /\ predictedClose_scaled = None /\ predictedClose = None
RunIdle ==
    /\ excelData = <<>> /\ newOpenPrice = Undefined /\ pc = "idle"
    /\ console = <<>> /\ runs = <<>> /\ LocalsFresh
IndicatorIdle == iCall = "none" /\ iIndex = 0 /\ iPeriod = 0 /\ iRet = None
MainIdle ==
    /\ mPc = "idle" /\ val = None /\ attempts = 0 /\ elapsed = 0
    /\ ohlcv = None /\ failures = {}
SheetIdle ==
    /\ instance = None /\ constructed = 0 /\ handle = None /\ ids = <<>>
    /\ currentValues = <<>> /\ sheetRows = <<>>

\* ------------------------------------------------- MinMaxScaler in use
\* new MinMaxScaler(data)
Construct ==
    /\ sCall = "none" /\ scaler = None
    /\ scaler' = NewMinMaxScaler(sData)
    /\ sCall' = "new"
    /\ UNCHANGED <<sData, sArg, sRet, sOrig, sThrown, buildVars, runVars, indVars, mainVars, sheetVars>>

\* scaler.scale(row) for a row of the fitting matrix
ScaleFitted ==
    /\ scaler # None
    /\ \E i \in 1..Len(sData) :
        /\ sArg' = sData[i]
        /\ sOrig' = sData[i]
        /\ sRet' = scale(scaler, sData[i])
    /\ sCall' = "scale"
    /\ UNCHANGED <<sData, scaler, sThrown, buildVars, runVars, indVars, mainVars, sheetVars>>

\* scaler.scale(row) for any row
ScaleProbe ==
    /\ scaler # None
    /\ \E row \in ProbeRows :
        /\ sArg' = row
        /\ sRet' = scale(scaler, row)
    /\ sOrig' = <<>>
    /\ sCall' = "scale"
    /\ UNCHANGED <<sData, scaler, sThrown, buildVars, runVars, indVars, mainVars, sheetVars>>

\* scaler.inverseScale(s) for the row s that the last scale call returned
InverseOfScaled ==
    /\ scaler # None /\ sCall = "scale"
    /\ sArg' = sRet
    /\ sRet' = inverseScale(scaler, sRet)
    /\ sCall' = "inverseScale"
    /\ UNCHANGED <<sData, scaler, sOrig, sThrown, buildVars, runVars, indVars, mainVars, sheetVars>>

\* scaler.inverseScale(row) for any row
InverseProbe ==
    /\ scaler # None
    /\ \E row \in ProbeRows :
        /\ sArg' = row
        /\ sRet' = inverseScale(scaler, row)
    /\ sOrig' = <<>>
    /\ sCall' = "inverseScale"
    /\ UNCHANGED <<sData, scaler, sThrown, buildVars, runVars, indVars, mainVars, sheetVars>>

\* scaler.scaleAll(data) for the fitting matrix
ScaleAllFitted ==
    /\ scaler # None
    /\ sArg' = sData
    /\ sRet' = scaleAll(scaler, sData)
    /\ sOrig' = <<>>
    /\ sCall' = "scaleAll"
    /\ UNCHANGED <<sData, scaler, sThrown, buildVars, runVars, indVars, mainVars, sheetVars>>

InitScaler ==
    /\ sData \in Matrices
    /\ scaler = None /\ sCall = "none"
    /\ sArg = <<>> /\ sRet = <<>> /\ sOrig = <<>> /\ sThrown = FALSE
    /\ BuildIdle /\ RunIdle /\ IndicatorIdle /\ MainIdle /\ SheetIdle

NextScaler ==
    \/ Construct
    \/ ScaleFitted
    \/ ScaleProbe
    \/ InverseOfScaled
    \/ InverseProbe
    \/ ScaleAllFitted

SpecScaler == InitScaler /\ [][NextScaler]_vars

\* ------------------------------------------------ prepareLaggedData in use
Build ==
    /\ built = None
    /\ built' = prepareLaggedData(data)
    /\ UNCHANGED <<data, scalerVars, runVars, indVars, mainVars, sheetVars>>

InitBuild ==
    /\ data \in BarSeqs
    /\ built = None
    /\ ScalerIdle /\ RunIdle /\ IndicatorIdle /\ MainIdle /\ SheetIdle

NextBuild == Build

SpecBuild == InitBuild /\ [][NextBuild]_vars

\* ------------------------------------------------ indicator helpers in use
\* calculateRSI(data, index, period) for an index inside the history
CallRSI ==
    /\ \E index \in 0..(Len(data) - 1), period \in Periods :
        /\ iIndex' = index
        /\ iPeriod' = period
        /\ iRet' = calculateRSI(data, index, period)
    /\ iCall' = "rsi"
    /\ UNCHANGED <<buildVars, scalerVars, runVars, mainVars, sheetVars>>

\* calculateATR(data, index, period) for an index up to the history's length
CallATR ==
    /\ \E index \in 0..Len(data), period \in Periods :
        /\ iIndex' = index
        /\ iPeriod' = period
        /\ iRet' = calculateATR(data, index, period)
    /\ iCall' = "atr"
    /\ UNCHANGED <<buildVars, scalerVars, runVars, mainVars, sheetVars>>

\* calculateSMA(data, index, period) for an index up to the history's length
CallSMA ==
    /\ \E index \in 0..Len(data), period \in Periods :
        /\ iIndex' = index
        /\ iPeriod' = period
        /\ iRet' = calculateSMA(data, index, period)
    /\ iCall' = "sma"
    /\ UNCHANGED <<buildVars, scalerVars, runVars, mainVars, sheetVars>>

InitIndicator ==
    /\ data \in IndSeqs
    /\ built = None
    /\ IndicatorIdle /\ ScalerIdle /\ RunIdle /\ MainIdle /\ SheetIdle

NextIndicator ==
    \/ CallRSI
    \/ CallATR
    \/ CallSMA

SpecIndicator == InitIndicator /\ [][NextIndicator]_vars

\* ---------------------------------------------------------- mrlRunStrategy
\* array.slice(from, to) for 0-based from and exclusive to
Slice(arr, from, to) == SubSeq(arr, from + 1, to)

\* what arr holds after arr.slice(from, to): slice copies, the receiver
\* stays as it is (splice would take the elements out of it)
SliceReceiver_Splice(arr, from, to) ==
    SubSeq(arr, 1, from) \o SubSeq(arr, to + 1, Len(arr))

SliceReceiver(arr, from, to) == arr

\* a ?? b
Nullish_Falsy(a, b) == IF a = Undefined \/ a = Num(0) \/ IsNaN(a) THEN b ELSE a

Nullish(a, b) == IF a = Undefined THEN b ELSE a

\* line 252: excelData.length < LOOKBACK_PERIOD + 2
TooFewBars_OffByOne(bars) == Len(bars) < LOOKBACK_PERIOD + 1

TooFewBars(bars) == Len(bars) < LOOKBACK_PERIOD + 2

\* line 264: excelData.slice(0, excelData.length - 1)
TrainingSlice_WholeHistory(bars) == bars

TrainingSlice(bars) == Slice(bars, 0, Len(bars) - 1)

\* lines 288-320: the feature row for the day to evaluate
PredictionRow_NoSma(bars, openOverride, evalDay, laggedDay) ==
    LET entireHistoryUpToPreviousDay == Slice(bars, 0, Len(bars) - 1)
        previousDayPP == FDiv(FAdd(FAdd(laggedDay.high, laggedDay.low), laggedDay.close), Num(3))
        fullHistoryLength == Len(entireHistoryUpToPreviousDay)
        atr_t_minus_1_pred ==
            calculateATR(entireHistoryUpToPreviousDay, fullHistoryLength, LOOKBACK_PERIOD)
        rsi_t_minus_1_pred ==
            calculateRSI(entireHistoryUpToPreviousDay, fullHistoryLength - 1, LOOKBACK_PERIOD)
        openPriceForPrediction == Nullish(openOverride, evalDay.open)
    IN  <<openPriceForPrediction, laggedDay.close, laggedDay.high, laggedDay.low,
          previousDayPP, laggedDay.volume, atr_t_minus_1_pred, rsi_t_minus_1_pred>>

PredictionRow_WholeHistory(bars, openOverride, evalDay, laggedDay) ==
    LET entireHistoryUpToPreviousDay == Slice(bars, 0, Len(bars))
        previousDayPP == FDiv(FAdd(FAdd(laggedDay.high, laggedDay.low), laggedDay.close), Num(3))
        fullHistoryLength == Len(entireHistoryUpToPreviousDay)
        atr_t_minus_1_pred ==
            calculateATR(entireHistoryUpToPreviousDay, fullHistoryLength, LOOKBACK_PERIOD)
        rsi_t_minus_1_pred ==
            calculateRSI(entireHistoryUpToPreviousDay, fullHistoryLength - 1, LOOKBACK_PERIOD)
        sma_t_minus_1_pred ==
            calculateSMA(entireHistoryUpToPreviousDay, fullHistoryLength, SHORT_PERIOD)
        openPriceForPrediction == Nullish(openOverride, evalDay.open)
    IN  <<openPriceForPrediction, laggedDay.close, laggedDay.high, laggedDay.low,
          previousDayPP, laggedDay.volume, atr_t_minus_1_pred, rsi_t_minus_1_pred,
          sma_t_minus_1_pred>>

PredictionRow_AtrLag(bars, openOverride, evalDay, laggedDay) ==
    LET entireHistoryUpToPreviousDay == Slice(bars, 0, Len(bars) - 1)
        previousDayPP == FDiv(FAdd(FAdd(laggedDay.high, laggedDay.low), laggedDay.close), Num(3))
        fullHistoryLength == Len(entireHistoryUpToPreviousDay)
        atr_t_minus_1_pred ==
            calculateATR(entireHistoryUpToPreviousDay, fullHistoryLength - 1, LOOKBACK_PERIOD)
        rsi_t_minus_1_pred ==
            calculateRSI(entireHistoryUpToPreviousDay, fullHistoryLength - 1, LOOKBACK_PERIOD)
        sma_t_minus_1_pred ==
            calculateSMA(entireHistoryUpToPreviousDay, fullHistoryLength, SHORT_PERIOD)
        openPriceForPrediction == Nullish(openOverride, evalDay.open)
    IN  <<openPriceForPrediction, laggedDay.close, laggedDay.high, laggedDay.low,
          previousDayPP, laggedDay.volume, atr_t_minus_1_pred, rsi_t_minus_1_pred,
          sma_t_minus_1_pred>>

PredictionRow(bars, openOverride, evalDay, laggedDay) ==
    LET entireHistoryUpToPreviousDay == Slice(bars, 0, Len(bars) - 1)
        previousDayPP == FDiv(FAdd(FAdd(laggedDay.high, laggedDay.low), laggedDay.close), Num(3))
        fullHistoryLength == Len(entireHistoryUpToPreviousDay)
        atr_t_minus_1_pred ==
            calculateATR(entireHistoryUpToPreviousDay, fullHistoryLength, LOOKBACK_PERIOD)
        rsi_t_minus_1_pred ==
            calculateRSI(entireHistoryUpToPreviousDay, fullHistoryLength - 1, LOOKBACK_PERIOD)
        sma_t_minus_1_pred ==
            calculateSMA(entireHistoryUpToPreviousDay, fullHistoryLength, SHORT_PERIOD)
        openPriceForPrediction == Nullish(openOverride, evalDay.open)
    IN  <<openPriceForPrediction, laggedDay.close, laggedDay.high, laggedDay.low,
          previousDayPP, laggedDay.volume, atr_t_minus_1_pred, rsi_t_minus_1_pred,
          sma_t_minus_1_pred>>

\* what a finished invocation leaves behind for the caller to observe
RunRecord(outcome) ==
    [excelData |-> excelData, newOpenPrice |-> newOpenPrice, outcome |-> outcome,
     trainingSet |-> trainingSet,
     featureScaler |-> featureScaler, labelScaler |-> labelScaler,
     regression |-> regression, row |-> lastDayFeatures_raw,
     predictedClose |-> predictedClose]

Log(what, value) == [level |-> "log", what |-> what, value |-> value]

\* a caller invokes mrlRunStrategy(bars, o); a later invocation is given the
\* same history again; the second may instead be given, after a history long
\* enough to run, the shortest ordinary one that runs, without an open
Invoke ==
    /\ pc \in {"idle", "returned"}
    /\ Len(runs) < MaxRuns
    /\ \E bars \in RunBarSeqs, o \in OpenPrices :
        /\ runs # <<>> =>
              \/ bars = excelData
              \/ /\ Len(runs) = 1 /\ ~TooFewBars(excelData)
                 /\ bars = BaseSeq(LOOKBACK_PERIOD + 2) /\ o = Undefined
              \/ /\ Len(runs) = 1 /\ excelData = BaseSeq(LOOKBACK_PERIOD + 2)
                 /\ bars = OtherEvaluationDay(excelData) /\ o = newOpenPrice
        /\ excelData' = bars
        /\ newOpenPrice' = o
    /\ pc' = "validate"
    /\ dayToEvaluate' = None /\ dayProvidingLaggedFeatures' = None /\ trainingSet' = None
    /\ X_raw' = None /\ Y_raw' = None
    /\ featureScaler' = None /\ labelScaler' = None
    /\ X_scaled' = None /\ Y_scaled' = None /\ regression' = None
    /\ lastDayFeatures_raw' = None /\ lastDayFeatures_scaled' = None
    /\ predictedClose_scaled' = None /\ predictedClose' = None
    /\ UNCHANGED <<console, runs, scalerVars, buildVars, indVars, mainVars, sheetVars>>

\* lines 252-256
Validate ==
    /\ pc = "validate"
    /\ IF TooFewBars(excelData)
       THEN /\ console' = Append(console,
                    [level |-> "error", what |-> "needMoreData", value |-> None])
            /\ pc' = "returned"
            /\ runs' = Append(runs, RunRecord("aborted"))
       ELSE /\ console' = Append(console, Log("running", None))
            /\ pc' = "split"
            /\ runs' = runs
    /\ UNCHANGED <<argVars, localVars, scalerVars, buildVars, indVars, mainVars, sheetVars>>

\* lines 258-264
Split ==
    /\ pc = "split"
    /\ dayToEvaluate' = Bar(excelData, Len(excelData) - 1)
    /\ dayProvidingLaggedFeatures' = Bar(excelData, Len(excelData) - 2)
    /\ trainingSet' = TrainingSlice(excelData)
    /\ excelData' = SliceReceiver(excelData, 0, Len(excelData) - 1)
    /\ pc' = "prepare"
    /\ UNCHANGED <<newOpenPrice, console, runs, rawVars, fitVars, trainVars, predVars,
                   scalerVars, buildVars, indVars, mainVars, sheetVars>>

\* lines 267-272
Prepare ==
    /\ pc = "prepare"
    /\ LET xy == prepareLaggedData(trainingSet)
       IN  /\ X_raw' = xy.X
           /\ Y_raw' = xy.Y
           /\ IF Len(xy.X) = 0
              THEN /\ console' = Append(console, Log("notEnoughData", None))
                   /\ pc' = "returned"
                   /\ runs' = Append(runs, RunRecord("aborted"))
              ELSE /\ pc' = "fitScalers"
                   /\ UNCHANGED <<console, runs>>
    /\ UNCHANGED <<argVars, splitVars, fitVars, trainVars, predVars, scalerVars, buildVars, indVars, mainVars, sheetVars>>

\* lines 275-276
FitScalers_Cached ==
    /\ pc = "fitScalers"
    /\ LET before == {n \in 1..Len(runs) : runs[n].outcome = "reported"}
           first == CHOOSE n \in before : \A m \in before : n <= m
       IN  /\ featureScaler' = IF before # {} THEN runs[first].featureScaler
                                ELSE NewMinMaxScaler(X_raw)
           /\ labelScaler' =
                  IF before # {} THEN runs[first].labelScaler
                  ELSE NewMinMaxScaler([k \in 1..Len(Y_raw) |-> <<Y_raw[k][1]>>])
    /\ pc' = "scaleTraining"
    /\ UNCHANGED <<argVars, console, runs, splitVars, rawVars, trainVars, predVars,
                   scalerVars, buildVars, indVars, mainVars, sheetVars>>

FitScalers ==
    /\ pc = "fitScalers"
    /\ featureScaler' = NewMinMaxScaler(X_raw)
    /\ labelScaler' = NewMinMaxScaler([k \in 1..Len(Y_raw) |-> <<Y_raw[k][1]>>])
    /\ pc' = "scaleTraining"
    /\ UNCHANGED <<argVars, console, runs, splitVars, rawVars, trainVars, predVars,
                   scalerVars, buildVars, indVars, mainVars, sheetVars>>

\* lines 279-282
ScaleTraining ==
    /\ pc = "scaleTraining"
    /\ X_scaled' = scaleAll(featureScaler, X_raw)
    /\ Y_scaled' = scaleAll(labelScaler, flattenY(Y_raw))
    /\ console' = Append(console, Log("training", None))
    /\ pc' = "train"
    /\ UNCHANGED <<argVars, runs, splitVars, rawVars, fitVars, regression, predVars,
                   scalerVars, buildVars, indVars, mainVars, sheetVars>>

\* line 285
Train ==
    /\ pc = "train"
    /\ regression' = NewMLR(X_scaled, Y_scaled)
    /\ pc' = "buildRow"
    /\ UNCHANGED <<argVars, console, runs, splitVars, rawVars, fitVars, X_scaled, Y_scaled,
                   predVars, scalerVars, buildVars, indVars, mainVars, sheetVars>>

\* lines 288-320
BuildPredictionRow ==
    /\ pc = "buildRow"
    /\ lastDayFeatures_raw' =
           PredictionRow(excelData, newOpenPrice, dayToEvaluate, dayProvidingLaggedFeatures)
    /\ excelData' = SliceReceiver(excelData, 0, Len(excelData) - 1)
    /\ pc' = "scaleRow"
    /\ UNCHANGED <<newOpenPrice, console, runs, splitVars, rawVars, fitVars, trainVars,
                   lastDayFeatures_scaled, predictedClose_scaled, predictedClose,
                   scalerVars, buildVars, indVars, mainVars, sheetVars>>

\* line 323
ScalePredictionRow ==
    /\ pc = "scaleRow"
    /\ lastDayFeatures_scaled' = scale(featureScaler, lastDayFeatures_raw)
    /\ pc' = "predict"
    /\ UNCHANGED <<argVars, console, runs, splitVars, rawVars, fitVars, trainVars,
                   lastDayFeatures_raw, predictedClose_scaled, predictedClose,
                   scalerVars, buildVars, indVars, mainVars, sheetVars>>

\* line 326
Predict_Refits ==
    /\ pc = "predict"
    /\ regression' = NewMLR(Append(X_scaled, lastDayFeatures_scaled), Y_scaled)
    /\ predictedClose_scaled' = MLRpredict(regression, <<lastDayFeatures_scaled>>)[1][1]
    /\ pc' = "inverseScale"
    /\ UNCHANGED <<argVars, console, runs, splitVars, rawVars, fitVars, X_scaled, Y_scaled,
                   lastDayFeatures_raw, lastDayFeatures_scaled, predictedClose,
                   scalerVars, buildVars, indVars, mainVars, sheetVars>>

Predict ==
    /\ pc = "predict"
    /\ predictedClose_scaled' = MLRpredict(regression, <<lastDayFeatures_scaled>>)[1][1]
    /\ pc' = "inverseScale"
    /\ UNCHANGED <<argVars, console, runs, splitVars, rawVars, fitVars, trainVars,
                   lastDayFeatures_raw, lastDayFeatures_scaled, predictedClose,
                   scalerVars, buildVars, indVars, mainVars, sheetVars>>

\* line 329
InverseScalePrediction ==
    /\ pc = "inverseScale"
    /\ predictedClose' = inverseScale(labelScaler, <<predictedClose_scaled>>)[1]
    /\ pc' = "report"
    /\ UNCHANGED <<argVars, console, runs, splitVars, rawVars, fitVars, trainVars,
                   lastDayFeatures_raw, lastDayFeatures_scaled, predictedClose_scaled,
                   scalerVars, buildVars, indVars, mainVars, sheetVars>>

\* lines 330-351
Report ==
    /\ pc = "report"
    /\ LET actualClose == dayToEvaluate.close
           deviation == FSub(predictedClose, actualClose)
           deviationPct == FMul(FDiv(FSub(predictedClose, actualClose), actualClose), Num(100))
       IN  console' = console \o
               <<Log("inputOpen", lastDayFeatures_raw[1]),
                 Log("predictedClose", predictedClose),
                 Log("actualClose", actualClose),
                 Log("deviation", deviation),
                 Log("deviationPct", deviationPct)>>
    /\ pc' = "returned"
    /\ runs' = Append(runs, RunRecord("reported"))
    /\ UNCHANGED <<argVars, localVars, scalerVars, buildVars, indVars, mainVars, sheetVars>>

Init == ScalerIdle /\ BuildIdle /\ RunIdle /\ IndicatorIdle /\ MainIdle /\ SheetIdle

Next ==
    \/ Invoke
    \/ Validate
    \/ Split
    \/ Prepare
    \/ FitScalers
    \/ ScaleTraining
    \/ Train
    \/ BuildPredictionRow
    \/ ScalePredictionRow
    \/ Predict
    \/ InverseScalePrediction
    \/ Report

Spec == Init /\ [][Next]_vars

\* -------------------------------------------------------------------- main
MAX_WAIT_TIME_MS == 15000
POLL_INTERVAL_MS == 2000

Null == [null |-> TRUE]

\* getOhlcvArrays, processArray: the numbers of one column, the cells that do
\* not parse to a number dropped
NotNaN(a) == ~IsNaN(a)
processArray(rows, field) ==
    SelectSeq([k \in 1..Len(rows) |-> rows[k][field]], NotNaN)

\* getOhlcvArrays: the five columns, each filtered on its own
getOhlcvArrays(rows) ==
    [f \in {"open", "high", "low", "close", "volume"} |-> processArray(rows, f)]

\* utils.transformOhlcv(data): a number printed and parsed again is the same
\* number, so each bar holds the column values as they are
ColumnsRagged(cols) ==
    \/ Len(cols.high) # Len(cols.open) \/ Len(cols.low) # Len(cols.open)
    \/ Len(cols.close) # Len(cols.open) \/ Len(cols.volume) # Len(cols.open)
transformOhlcv(cols) ==
    [k \in 1..Len(cols.open) |->
        [open |-> cols.open[k], high |-> cols.high[k], low |-> cols.low[k],
         close |-> cols.close[k], volume |-> cols.volume[k]]]

\* _val?.open
OptionalOpen(v) == IF v = Null THEN Undefined ELSE v.open

\* GoogleSheetManager.getInstance(spreadsheetId): the static instance after
\* the call, which is also what the call returns
getInstance_AlwaysNew(inst, spreadsheetId) ==
    [spreadsheetId |-> spreadsheetId, sheets |-> "authorized"]

getInstance(inst, spreadsheetId) ==
    IF inst = None
    THEN [spreadsheetId |-> spreadsheetId, sheets |-> "authorized"]
    ELSE inst

\* lines 16-19 of main: the sheet manager and the two prompts, then the call
\* of getCellValue
MainStart ==
    /\ mPc = "idle"
    /\ instance' = getInstance(instance, SPREADSHEET_ID)
    /\ constructed' = IF instance = None THEN constructed + 1 ELSE constructed
    /\ handle' = instance'
    /\ ids' = Append(ids, SPREADSHEET_ID)
    /\ mPc' = "update"
    /\ UNCHANGED <<val, attempts, elapsed, ohlcv, failures, currentValues, sheetRows,
                   scalerVars, buildVars, runVars, indVars>>

\* getCellValue, step 1: write the symbol cell
UpdateSymbol ==
    /\ mPc = "update"
    /\ \E ok \in BOOLEAN :
        IF ok
        THEN /\ mPc' = "pollCheck"
             /\ attempts' = 0 /\ elapsed' = 0
             /\ UNCHANGED <<val, failures>>
        ELSE /\ val' = Null
             /\ failures' = failures \cup {"symbolUpdate"}
             /\ mPc' = "fetch"
             /\ UNCHANGED <<attempts, elapsed>>
    /\ UNCHANGED <<ohlcv, scalerVars, buildVars, runVars, indVars, sheetVars>>

\* getCellValue, the head of the polling loop: the test of the elapsed time,
\* and from the second attempt on the wait
PollCheck ==
    /\ mPc = "pollCheck"
    /\ IF elapsed >= MAX_WAIT_TIME_MS
       THEN /\ val' = Null
            /\ failures' = failures \cup {"pollingTimeout"}
            /\ mPc' = "fetch"
            /\ UNCHANGED <<attempts, elapsed>>
       ELSE /\ attempts' = attempts + 1
            /\ IF attempts + 1 > 1
               THEN \E d \in Delays :
                      LET now == elapsed + d
                          remainingTime == MAX_WAIT_TIME_MS - now
                          waitTime == MinInt(POLL_INTERVAL_MS, remainingTime)
                      IN  IF waitTime <= 0
                          THEN /\ elapsed' = now
                               /\ failures' = failures \cup {"pollingError"}
                               /\ mPc' = "caught"
                          ELSE /\ elapsed' = now + waitTime
                               /\ failures' = failures
                               /\ mPc' = "pollRead"
               ELSE /\ mPc' = "pollRead"
                    /\ UNCHANGED <<elapsed, failures>>
            /\ val' = val
    /\ UNCHANGED <<ohlcv, scalerVars, buildVars, runVars, indVars, sheetVars>>

\* getCellValue, the body of the polling loop: one batch read of the cells;
\* valid is the number of cells read before the first blank or invalid one,
\* -1 a failed request
PollRead ==
    /\ mPc = "pollRead"
    /\ \E d \in Delays, valid \in -1..NumCells :
        /\ elapsed' = elapsed + d
        /\ IF valid = -1
           THEN /\ mPc' = "pollCheck"
                /\ val' = val
                /\ currentValues' = <<>>
           ELSE LET allValid == valid = NumCells
                    keys == valid
                IN  /\ currentValues' = SubSeq(CellValues, 1, valid)
                    /\ IF allValid /\ keys = 3
                       THEN /\ val' = Quote
                            /\ mPc' = "fetch"
                       ELSE /\ mPc' = "pollCheck"
                            /\ val' = val
    /\ UNCHANGED <<attempts, ohlcv, failures, instance, constructed, handle, ids,
                   sheetRows, scalerVars, buildVars, runVars, indVars>>

\* lines 25-35 of main: getOhlcvArrays
FetchOhlcv ==
    /\ mPc = "fetch"
    /\ \E ok \in BOOLEAN, sheet \in Sheets :
        /\ sheetRows' = sheet
        /\ IF ok /\ Len(getOhlcvArrays(sheet).open) # 0
           THEN /\ ohlcv' = getOhlcvArrays(sheet)
                /\ mPc' = "transform"
                /\ failures' = failures
           ELSE /\ failures' = failures \cup {"ohlcvFetch"}
                /\ mPc' = "caught"
                /\ ohlcv' = ohlcv
    /\ UNCHANGED <<val, attempts, elapsed, instance, constructed, handle, ids,
                   currentValues, scalerVars, buildVars, runVars, indVars>>

\* lines 36-39 of main: transformOhlcv, the reversed copy and the call of
\* mrlRunStrategy
CallStrategy ==
    /\ mPc = "transform"
    /\ IF ColumnsRagged(ohlcv)
       THEN /\ mPc' = "caught"
            /\ UNCHANGED <<argVars, pc>>
       ELSE /\ excelData' = Reverse(transformOhlcv(ohlcv))
            /\ newOpenPrice' = OptionalOpen(val)
            /\ pc' = "validate"
            /\ mPc' = "running"
    /\ UNCHANGED <<val, attempts, elapsed, ohlcv, failures, console, localVars, runs,
                   scalerVars, buildVars, indVars, sheetVars>>

\* line 39: mrlRunStrategy has returned
StrategyReturns ==
    /\ mPc = "running" /\ pc = "returned"
    /\ mPc' = "done"
    /\ UNCHANGED <<val, attempts, elapsed, ohlcv, failures,
                   scalerVars, buildVars, runVars, indVars, sheetVars>>

\* lines 41-43: catch (err)
Catch ==
    /\ mPc = "caught"
    /\ console' = Append(console, Log("err", None))
    /\ mPc' = "done"
    /\ UNCHANGED <<val, attempts, elapsed, ohlcv, failures, argVars, pc, localVars, runs,
                   scalerVars, buildVars, indVars, sheetVars>>

NextMain ==
    \/ MainStart
    \/ UpdateSymbol
    \/ PollCheck
    \/ PollRead
    \/ FetchOhlcv
    \/ CallStrategy
    \/ StrategyReturns
    \/ Catch
    \/ Validate
    \/ Split
    \/ Prepare
    \/ FitScalers
    \/ ScaleTraining
    \/ Train
    \/ BuildPredictionRow
    \/ ScalePredictionRow
    \/ Predict
    \/ InverseScalePrediction
    \/ Report

SpecMain == Init /\ [][NextMain]_vars

\* ------------------------------------------------------ GoogleSheetManager
\* one call of GoogleSheetManager.getInstance(id)
GetInstance ==
    /\ Len(ids) < MaxCalls
    /\ \E id \in SheetIds :
        /\ instance' = getInstance(instance, id)
        /\ ids' = Append(ids, id)
    /\ constructed' = IF instance = None THEN constructed + 1 ELSE constructed
    /\ handle' = instance'
    /\ UNCHANGED <<currentValues, sheetRows, scalerVars, buildVars, runVars, indVars,
                   mainVars>>

\* no call on the manager is under way
BetweenCalls == mPc \in {"idle", "fetch", "caught", "priceReturned"}

\* a call of getCellValue(stockSymbol) on the manager
CallGetCellValue ==
    /\ instance # None /\ BetweenCalls
    /\ mPc' = "update"
    /\ val' = None /\ attempts' = 0 /\ elapsed' = 0 /\ failures' = {}
    /\ currentValues' = <<>>
    /\ UNCHANGED <<ohlcv, instance, constructed, handle, ids, sheetRows,
                   scalerVars, buildVars, runVars, indVars>>

\* a call of getStockClosePrice(stockSymbol) on the manager
CallGetStockClosePrice ==
    /\ instance # None /\ BetweenCalls
    /\ mPc' = "priceUpdate"
    /\ val' = None /\ attempts' = 0 /\ elapsed' = 0 /\ failures' = {}
    /\ currentValues' = <<>>
    /\ UNCHANGED <<ohlcv, instance, constructed, handle, ids, sheetRows,
                   scalerVars, buildVars, runVars, indVars>>

\* getStockClosePrice, step 1: write the symbol cell
PriceUpdateSymbol ==
    /\ mPc = "priceUpdate"
    /\ \E ok \in BOOLEAN :
        IF ok
        THEN /\ mPc' = "priceLoop"
             /\ UNCHANGED <<val, failures>>
        ELSE /\ val' = Null
             /\ failures' = failures \cup {"symbolUpdate"}
             /\ mPc' = "priceReturned"
    /\ UNCHANGED <<attempts, elapsed, ohlcv, scalerVars, buildVars, runVars, indVars,
                   sheetVars>>

\* getStockClosePrice, the head of the polling loop: the test of the elapsed
\* time, and from the second attempt on the wait, inside the try block
PriceLoop ==
    /\ mPc = "priceLoop"
    /\ IF elapsed >= MAX_WAIT_TIME_MS
       THEN /\ val' = Null
            /\ failures' = failures \cup {"pollingTimeout"}
            /\ mPc' = "priceReturned"
            /\ UNCHANGED <<attempts, elapsed>>
       ELSE /\ attempts' = attempts + 1
            /\ IF attempts + 1 > 1
               THEN \E d \in Delays :
                      LET now == elapsed + d
                          remainingTime == MAX_WAIT_TIME_MS - now
                          waitTime == MinInt(POLL_INTERVAL_MS, remainingTime)
                      IN  IF waitTime <= 0
                          THEN /\ elapsed' = now
                               /\ failures' = failures \cup {"pollingError"}
                               /\ val' = Null
                               /\ mPc' = "priceReturned"
                          ELSE /\ elapsed' = now + waitTime
                               /\ failures' = failures
                               /\ val' = val
                               /\ mPc' = "priceRead"
               ELSE /\ mPc' = "priceRead"
                    /\ UNCHANGED <<elapsed, failures, val>>
    /\ UNCHANGED <<ohlcv, scalerVars, buildVars, runVars, indVars, sheetVars>>

\* getStockClosePrice, the body of the polling loop: one read of the price
\* cell, which fails, holds no valid number yet, or holds the price
PriceRead ==
    /\ mPc = "priceRead"
    /\ \E d \in Delays, cell \in {"error", "loading", "price"} :
        /\ elapsed' = elapsed + d
        /\ IF cell = "price"
           THEN /\ val' = Quote.close
                /\ mPc' = "priceReturned"
           ELSE /\ mPc' = "priceLoop"
                /\ val' = val
    /\ UNCHANGED <<attempts, ohlcv, failures, scalerVars, buildVars, runVars, indVars,
                   sheetVars>>

NextSheet ==
    \/ GetInstance
    \/ CallGetCellValue
    \/ UpdateSymbol
    \/ PollCheck
    \/ PollRead
    \/ CallGetStockClosePrice
    \/ PriceUpdateSymbol
    \/ PriceLoop
    \/ PriceRead

SpecSheet == Init /\ [][NextSheet]_vars

\* ------------------------------------------------- properties: MinMaxScaler
\* a * 2^(-e0) as an integer, for e0 at most the exponent of a
ScaledInt(a, e0) == a[1] * (2 ^ (a[2] - e0))

\* |out - v| <= u * (5 * (v - m) + |m|) with u = 2^(-MantissaBits), exactly
WithinRounding(out, v, m) ==
    /\ IsFinite(out) /\ IsFinite(v) /\ IsFinite(m)
    /\ LET e0 == MinInt(out[2], MinInt(v[2], m[2]))
           O == ScaledInt(out, e0)
           V == ScaledInt(v, e0)
           M == ScaledInt(m, e0)
       IN  Abs(O - V) * (2 ^ MantissaBits) <= 5 * (V - M) + Abs(M)

RoundTripDone == sCall = "inverseScale" /\ sOrig # <<>>

\* C2 (as stated): after inverseScale(scale(row)) for a row of the fitting
\* matrix, the result equals row in every column with max # min and equals
\* min[j] in every column with max = min.
C2_ExactRoundTrip ==
    RoundTripDone =>
        \A j \in 1..Len(sOrig) :
            IF scaler.max[j] # scaler.min[j] THEN sRet[j] = sOrig[j]
            ELSE sRet[j] = scaler.min[j]

\* C2 (amended): after inverseScale(scale(row)) for a row of the fitting
\* matrix, the result is within rounding error of row in every column with
\* max # min (|result - row[j]| <= u * (5 * (row[j] - min[j]) + |min[j]|), u
\* the unit roundoff) and equals min[j] exactly in every column with max = min.
C2_RoundTripWithinRounding ==
    RoundTripDone =>
        /\ Len(sRet) = Len(sOrig)
        /\ \A j \in 1..Len(sOrig) :
            IF scaler.max[j] # scaler.min[j]
            THEN WithinRounding(sRet[j], sOrig[j], scaler.min[j])
            ELSE sRet[j] = scaler.min[j]

\* a round trip of a row lying strictly inside a column's range that does not
\* give the value back exactly, next to a column of zero range
C2_Witness ==
    /\ RoundTripDone
    /\ \E j \in 1..Len(sOrig) :
        /\ FLt(scaler.min[j], sOrig[j]) /\ FLt(sOrig[j], scaler.max[j])
        /\ sRet[j] # sOrig[j]
    /\ \E j \in 1..Len(sOrig) : scaler.max[j] = scaler.min[j]

\* C3 (as stated): a call of scale or inverseScale with a row whose width
\* differs from the number of fitted columns raises an error.
C3_MismatchRaises ==
    (sCall \in {"scale", "inverseScale"} /\ Len(sArg) # Len(scaler.min)) => sThrown

\* the columns of the row last passed in that the scaler holds with max = min
ZeroRangeColumns ==
    {j \in 1..Len(scaler.min) : j <= Len(sArg) /\ scaler.max[j] = scaler.min[j]}

\* C13: in a column whose fitted max equals its fitted min, scale returns
\* exactly 0.5 for every value, equal to min or not, and inverseScale returns
\* min for every value, 0.5 included.
C13_ZeroRangeColumn ==
    /\ sCall = "scale" => \A j \in ZeroRangeColumns : sRet[j] = Half
    /\ sCall = "inverseScale" => \A j \in ZeroRangeColumns : sRet[j] = scaler.min[j]
    /\ sCall = "scaleAll" =>
          \A i \in 1..Len(sRet) : \A j \in 1..Len(scaler.min) :
              scaler.max[j] = scaler.min[j] => sRet[i][j] = Half

\* a value other than the column's only fitted value was scaled to 0.5
C13_Witness ==
    /\ sCall = "scale"
    /\ \E j \in ZeroRangeColumns : sArg[j] # scaler.min[j] /\ sRet[j] = Half

\* C14 (as stated): a scaler fitted on an empty matrix has zero columns, and
\* scale on it returns the row it was given unchanged.
C14_EmptyScalerIsNoOp ==
    (scaler # None /\ sData = <<>>) =>
        /\ scaler.min = <<>> /\ scaler.max = <<>>
        /\ sCall = "scale" => sRet = sArg

\* a number of the closed interval [0, 1]
InUnitInterval(a) == IsFinite(a) /\ FLe(Num(0), a) /\ FLe(a, Num(1))

\* C22: for every row of the matrix a MinMaxScaler was fitted on, every
\* element of scale(row) lies in the closed interval [0, 1]; in each column
\* with non-zero range some fitted row scales to exactly 0 and some fitted row
\* scales to exactly 1.
C22_FittedRowsInUnitInterval ==
    /\ (sCall = "scale" /\ sOrig # <<>>) =>
          \A j \in 1..Len(sRet) : InUnitInterval(sRet[j])
    /\ sCall = "scaleAll" =>
          /\ \A i \in 1..Len(sRet) : \A j \in 1..Len(sRet[i]) : InUnitInterval(sRet[i][j])
          /\ \A j \in 1..Len(scaler.min) :
                scaler.max[j] # scaler.min[j] =>
                    /\ \E i \in 1..Len(sRet) : sRet[i][j] = Num(0)
                    /\ \E i \in 1..Len(sRet) : sRet[i][j] = Num(1)

\* a fitted matrix scaled as a whole: one column holds a row scaled to 0, one
\* to 1 and one strictly between, next to a column of zero range
C22_Witness ==
    /\ sCall = "scaleAll" /\ Len(scaler.min) = 2
    /\ scaler.max[1] # scaler.min[1]
    /\ \E i \in 1..Len(sRet) : FLt(Num(0), sRet[i][1]) /\ FLt(sRet[i][1], Num(1))
    /\ scaler.max[2] = scaler.min[2]
    /\ \E i \in 1..Len(sRet) : sRet[i][1] = Num(0)
    /\ \E i \in 1..Len(sRet) : sRet[i][1] = Num(1)
    /\ \E i \in 1..Len(sRet) : sRet[i][2] = Half

\* -------------------------------------------- properties: prepareLaggedData
\* C1: prepareLaggedData(data) returns max(0, len(data) - LOOKBACK_PERIOD)
\* feature rows, and empty X and Y when len(data) <= LOOKBACK_PERIOD.
C1_RowCount ==
    built # None =>
        /\ Len(built.X) = (IF Len(data) > LOOKBACK_PERIOD
                           THEN Len(data) - LOOKBACK_PERIOD ELSE 0)
        /\ (Len(data) <= LOOKBACK_PERIOD => built.X = <<>> /\ built.Y = <<>>)

\* a history two bars longer than the lookback was turned into two rows
C1_Witness ==
    built # None /\ Len(data) = LOOKBACK_PERIOD + 2 /\ Len(built.X) = 2

\* replacement days for the hyperproperty below
AltBars == SpikeBars \cup {BaseBar(0)}

\* C5: for every history that differs from data in bar i only, the row built
\* for bar i is the same in every component but the first, which is the open
\* of the new bar i, and for every history that differs in a later bar only,
\* it is the same row.
C5_NoLookahead ==
    built # None =>
        \A k \in 1..Len(built.X) :
            LET i == LOOKBACK_PERIOD + k - 1
            IN  \A j \in i..(Len(data) - 1) : \A b \in AltBars :
                    LET other == [data EXCEPT ![j + 1] = b]
                        row == prepareLaggedData(other).X[k]
                    IN  /\ Len(row) = Len(built.X[k])
                        /\ \A c \in 1..Len(row) :
                              IF c = 1 /\ j = i THEN row[c] = b.open
                              ELSE row[c] = built.X[k][c]

\* rows were built whose ATR and RSI are computed from a full window, with
\* a later bar in the history
C5_Witness ==
    /\ built # None /\ Len(built.X) >= 2
    /\ built.X[2][7] # Num(0) /\ built.X[2][8] # Num(50)
    /\ built.X[1] # built.X[2]

\* C6: X and Y have the same length, and row k and label k both come from
\* bar i = LOOKBACK_PERIOD + k: the label is bars[i].close, the row starts
\* with bars[i].open followed by close, high, low and pivot of bars[i-1].
C6_RowLabelSameBar ==
    built # None =>
        /\ Len(built.X) = Len(built.Y)
        /\ \A k \in 1..Len(built.X) :
            LET i == LOOKBACK_PERIOD + k - 1
                t == Bar(data, i)
                y == Bar(data, i - 1)
            IN  /\ built.Y[k] = <<t.close>>
                /\ built.X[k][1] = t.open
                /\ built.X[k][2] = y.close
                /\ built.X[k][3] = y.high
                /\ built.X[k][4] = y.low
                /\ built.X[k][5] = FDiv(FAdd(FAdd(y.high, y.low), y.close), Num(3))

\* two rows were built, around an unusual day
C6_Witness ==
    /\ built # None /\ Len(built.X) >= 2
    /\ \E i \in (LOOKBACK_PERIOD - 1)..(Len(data) - 1) : Bar(data, i) \in SpikeBars
    /\ built.Y[1] # built.Y[2]

\* ----------------------------------------------- properties: mrlRunStrategy
Last == Len(excelData) - 1
Reported(what) == \E n \in 1..Len(console) : console[n].what = what

\* C4: a run given fewer than LOOKBACK_PERIOD + 2 bars stops at validation:
\* it reports the shortage, returns, fits no scaler and no model and reports
\* no predicted close; a run given at least that many bars is not stopped by
\* validation.
C4_ShortHistoryAborts ==
    /\ (pc # "idle" /\ Len(excelData) < LOOKBACK_PERIOD + 2) =>
        /\ pc \in {"validate", "returned"}
        /\ featureScaler = None /\ labelScaler = None /\ regression = None
        /\ predictedClose = None
        /\ ~Reported("predictedClose")
        /\ pc = "returned" =>
            /\ console[Len(console)] =
                   [level |-> "error", what |-> "needMoreData", value |-> None]
            /\ runs[Len(runs)].outcome = "aborted"
    /\ (pc # "idle" /\ Len(excelData) >= LOOKBACK_PERIOD + 2) =>
        /\ ~Reported("needMoreData")
        /\ pc # "validate" => Reported("running")

\* a run on LOOKBACK_PERIOD + 1 bars has returned
C4_Witness ==
    /\ pc = "returned" /\ Len(excelData) = LOOKBACK_PERIOD + 1
    /\ runs[Len(runs)].outcome = "aborted"

\* the components after the open, for the day with index i of bars
LaggedLayout(bars, i) ==
    LET y == Bar(bars, i - 1)
    IN  <<y.close, y.high, y.low, FDiv(FAdd(FAdd(y.high, y.low), y.close), Num(3)),
          y.volume, calculateATR(bars, i, LOOKBACK_PERIOD),
          calculateRSI(bars, i - 1, LOOKBACK_PERIOD), calculateSMA(bars, i, SHORT_PERIOD)>>

\* C7: once the prediction row is built, every training row, the feature
\* scaler and the prediction row have one and the same width, and when the
\* run has returned the prediction row lists its fields in the order of the
\* training rows.
C7_OneWidthOneOrder ==
    lastDayFeatures_raw # None =>
        LET w == Len(X_raw[1])
        IN  /\ \A k \in 1..Len(X_raw) : Len(X_raw[k]) = w
            /\ Len(featureScaler.min) = w /\ Len(featureScaler.max) = w
            /\ Len(lastDayFeatures_raw) = w
            /\ pc = "returned" =>
                /\ \A k \in 1..Len(X_raw) :
                      Tail(X_raw[k]) = LaggedLayout(trainingSet, LOOKBACK_PERIOD + k - 1)
                /\ Tail(lastDayFeatures_raw) = LaggedLayout(excelData, Last)

\* a prediction row was built after training on two rows
C7_Witness ==
    /\ pc = "returned" /\ lastDayFeatures_raw # None
    /\ Len(X_raw) = 2 /\ X_raw[1] # X_raw[2]

\* C8 (as stated): evaluationDay = bars[last], laggedFeatureDay = bars[last-1]
\* and trainingSet = bars[0 .. last-1), the bars before the lagged day; only
\* the training set is built from and fitted on.
C8_TrainingStopsBeforeLaggedDay ==
    trainingSet # None =>
        /\ dayToEvaluate = Bar(excelData, Last)
        /\ dayProvidingLaggedFeatures = Bar(excelData, Last - 1)
        /\ trainingSet = Slice(excelData, 0, Last - 1)

\* C8 (amended): evaluationDay = bars[last], laggedFeatureDay = bars[last-1]
\* and trainingSet = bars[0 .. last), every bar but the evaluation day, the
\* lagged day included; when the run has returned, the training rows are
\* those built from the training set and both scalers are those fitted on
\* these rows.
C8_TrainingStopsBeforeEvaluationDay ==
    trainingSet # None =>
        /\ dayToEvaluate = Bar(excelData, Last)
        /\ dayProvidingLaggedFeatures = Bar(excelData, Last - 1)
        /\ trainingSet = Slice(excelData, 0, Last)
        /\ pc = "returned" =>
            LET xy == prepareLaggedData(Slice(excelData, 0, Last))
            IN  /\ X_raw = xy.X /\ Y_raw = xy.Y
                /\ featureScaler = NewMinMaxScaler(xy.X)
                /\ labelScaler = NewMinMaxScaler(xy.Y)

\* both scalers were fitted in a run whose last two days differ
C8_Witness ==
    /\ pc = "returned" /\ featureScaler # None /\ labelScaler # None
    /\ dayToEvaluate # dayProvidingLaggedFeatures
    /\ Len(trainingSet) = Len(excelData) - 1

\* C9: when a run has built its prediction row and returned, the row is,
\* without an override, the row prepareLaggedData builds for index last of
\* the complete history, and with an override that row with the override as
\* first component.
C9_PredictionRowIsRowOfLast ==
    (lastDayFeatures_raw # None /\ pc = "returned") =>
        LET full == prepareLaggedData(excelData).X
            row == full[Last - LOOKBACK_PERIOD + 1]
        IN  /\ Len(lastDayFeatures_raw) = Len(row)
            /\ \A c \in 2..Len(row) : lastDayFeatures_raw[c] = row[c]
            /\ newOpenPrice = Undefined => lastDayFeatures_raw = row
            /\ newOpenPrice # Undefined => lastDayFeatures_raw[1] = newOpenPrice

\* a prediction row built without override, with ATR and RSI from full windows
C9_Witness ==
    /\ pc = "returned" /\ lastDayFeatures_raw # None /\ newOpenPrice = Undefined
    /\ lastDayFeatures_raw[7] # Num(0) /\ lastDayFeatures_raw[8] # Num(50)
    /\ \E i \in 0..Last : Bar(excelData, i) = RunSpike

ReportedRuns == {n \in 1..Len(runs) : runs[n].outcome = "reported"}

\* C10: the first component of the prediction row is the supplied open when
\* one is supplied and the recorded open of the evaluation day otherwise; of
\* two runs on the same bars, one with and one without a supplied open, all
\* other components, both scalers and the model are the same.
C10_OverrideOnlyChangesOpen ==
    /\ \A n \in ReportedRuns :
          runs[n].row[1] =
              IF runs[n].newOpenPrice = Undefined
              THEN Bar(runs[n].excelData, Len(runs[n].excelData) - 1).open
              ELSE runs[n].newOpenPrice
    /\ \A a \in ReportedRuns : \A b \in ReportedRuns :
          (/\ runs[a].excelData = runs[b].excelData
           /\ runs[a].newOpenPrice = Undefined
           /\ runs[b].newOpenPrice # Undefined) =>
              /\ Tail(runs[a].row) = Tail(runs[b].row)
              /\ runs[a].featureScaler = runs[b].featureScaler
              /\ runs[a].labelScaler = runs[b].labelScaler
              /\ runs[a].regression = runs[b].regression

\* the same bars were run without an open and then with the open 0
C10_Witness ==
    /\ Len(runs) = 2
    /\ runs[1].outcome = "reported" /\ runs[2].outcome = "reported"
    /\ runs[1].newOpenPrice = Undefined /\ runs[2].newOpenPrice = Num(0)
    /\ runs[1].row # runs[2].row

\* C15 (as stated): a run given LOOKBACK_PERIOD + 1 = 15 bars produces exactly
\* one training feature row, the one for bar 14.
C15_FifteenBarsOneRow ==
    (pc = "returned" /\ Len(excelData) = LOOKBACK_PERIOD + 1) =>
        /\ X_raw # None /\ Len(X_raw) = 1
        /\ X_raw[1][1] = Bar(excelData, LOOKBACK_PERIOD).open

\* C15 (amended): a run given LOOKBACK_PERIOD + 2 = 16 bars trains on the 15
\* bars before the last and produces exactly one training feature row and
\* label, those of bar 14; a run given 15 bars stops at validation and
\* produces no row.
C15_SixteenBarsOneRow ==
    /\ (Len(excelData) = LOOKBACK_PERIOD + 2
            /\ pc \notin {"idle", "validate", "split", "prepare"}) =>
        /\ Len(trainingSet) = LOOKBACK_PERIOD + 1
        /\ Len(X_raw) = 1 /\ Len(Y_raw) = 1
        /\ X_raw[1][1] = Bar(excelData, LOOKBACK_PERIOD).open
        /\ X_raw[1][2] = Bar(excelData, LOOKBACK_PERIOD - 1).close
        /\ Y_raw[1] = <<Bar(excelData, LOOKBACK_PERIOD).close>>
    /\ (Len(excelData) = LOOKBACK_PERIOD + 1 /\ pc # "idle") =>
        /\ X_raw = None /\ trainingSet = None
        /\ pc \in {"validate", "returned"}

\* a run on 16 bars reported a prediction after training on one row
C15_Witness ==
    /\ pc = "returned" /\ Len(excelData) = LOOKBACK_PERIOD + 2
    /\ runs[Len(runs)].outcome = "reported"
    /\ Len(X_raw) = 1

\* C16: once the feature and label scalers of a run are constructed, no later
\* step of the run (scaleAll on the training data, scale on the prediction
\* row, inverseScale on the prediction) changes their min and max; the
\* scaler that has scaled the prediction row holds the min and max of the
\* training rows, those built from the bars before the evaluation day.
C16_ScalersNeverRefit ==
    /\ [][(featureScaler # None /\ pc # "returned") =>
             (featureScaler' = featureScaler /\ labelScaler' = labelScaler)]_vars
    /\ [](pc = "predict" =>
             LET fitted == NewMinMaxScaler(prepareLaggedData(Slice(excelData, 0, Last)).X)
             IN  /\ featureScaler = fitted
                 /\ lastDayFeatures_scaled = scale(fitted, lastDayFeatures_raw))

\* a prediction row with a component outside the fitted range was scaled
C16_Witness ==
    /\ pc = "predict"
    /\ \E j \in 1..Len(lastDayFeatures_raw) :
          \/ FLt(featureScaler.max[j], lastDayFeatures_raw[j])
          \/ FLt(lastDayFeatures_raw[j], featureScaler.min[j])

\* the results of the pipeline steps in the order of the pipeline: training
\* (X, Y), the two scalers, the scaled training data, the model, the
\* prediction row, the scaled row, the scaled prediction, the prediction
PipelineResults ==
    <<<<X_raw, Y_raw>>, <<featureScaler, labelScaler>>, <<X_scaled, Y_scaled>>,
      <<regression>>, <<lastDayFeatures_raw>>, <<lastDayFeatures_scaled>>,
      <<predictedClose_scaled>>, <<predictedClose>>>>
NoResult(r) == \A k \in 1..Len(r) : r[k] = None
Produced == {k \in 1..Len(PipelineResults) : ~NoResult(PipelineResults[k])}
ReportsOfPrediction == Len(SelectSeq(console, LAMBDA entry : entry.what = "predictedClose"))

\* C18: at every moment of a run the results present are those of a first
\* part of the pipeline (build, fit scalers, scale training data, fit model,
\* build row, scale row, predict, inverse-scale), so no step runs before the
\* one it follows; no step of a run changes a result already present, so each
\* step happens once and the model is fitted once; each step adds at most the
\* next result; a prediction is reported only with every result present, and
\* once per reporting run.
C18_PipelineOrder ==
    /\ [](/\ \A k \in Produced : \A h \in 1..k : h \in Produced
          /\ (pc = "returned" /\ runs[Len(runs)].outcome = "reported") =>
                Produced = 1..Len(PipelineResults)
          /\ ReportsOfPrediction = Cardinality(ReportedRuns))
    /\ [][pc' # "validate" =>
            /\ \A k \in Produced : PipelineResults'[k] = PipelineResults[k]
            /\ Produced' \subseteq Produced \cup {Cardinality(Produced) + 1}
            /\ ReportsOfPrediction' # ReportsOfPrediction =>
                  (pc = "report" /\ Produced = 1..Len(PipelineResults))]_vars

\* a run on two training rows has reported its prediction
C18_Witness ==
    /\ pc = "returned" /\ runs[Len(runs)].outcome = "reported"
    /\ Produced = 1..Len(PipelineResults)
    /\ Len(X_raw) = 2 /\ regression # None

\* what the n-th invocation has logged: predicted close, actual close, deviation
Logged(what) == SelectSeq(console, LAMBDA entry : entry.what = what)
ReportOf(n) ==
    LET k == Cardinality({m \in ReportedRuns : m <= n})
    IN  <<Logged("predictedClose")[k].value, Logged("actualClose")[k].value,
          Logged("deviation")[k].value>>

\* the invocation that has just returned made the report that its bars and
\* its open alone determine: training rows, scalers, model, prediction row
\* and prediction are those computed from these inputs, step by step
ReportFromInputsOnly ==
    LET n == Len(runs)
        xy == prepareLaggedData(Slice(excelData, 0, Last))
    IN  /\ X_raw = xy.X /\ Y_raw = xy.Y
        /\ featureScaler = NewMinMaxScaler(X_raw)
        /\ labelScaler = NewMinMaxScaler(Y_raw)
        /\ regression = NewMLR(scaleAll(featureScaler, X_raw),
                               scaleAll(labelScaler, flattenY(Y_raw)))
        /\ lastDayFeatures_raw =
               PredictionRow(excelData, newOpenPrice, Bar(excelData, Last),
                             Bar(excelData, Last - 1))
        /\ predictedClose =
               inverseScale(labelScaler,
                   <<MLRpredict(regression,
                                <<scale(featureScaler, lastDayFeatures_raw)>>)[1][1]>>)[1]
        /\ ReportOf(n) = <<predictedClose, Bar(excelData, Last).close,
                           FSub(predictedClose, Bar(excelData, Last).close)>>

\* C19: when an invocation has returned with a report, the report is the one
\* its bars and its open alone determine, whatever ran before it, and any two
\* invocations so far that were given the same bars and the same open have
\* reported the same predicted close, actual close and deviation.
C19_RunsIndependent ==
    (pc = "returned" /\ runs[Len(runs)].outcome = "reported") =>
        /\ ReportFromInputsOnly
        /\ \A a \in ReportedRuns : \A b \in ReportedRuns :
              (/\ runs[a].excelData = runs[b].excelData
               /\ runs[a].newOpenPrice = runs[b].newOpenPrice) => ReportOf(a) = ReportOf(b)

\* an invocation reported after one on other bars, which had fitted other
\* scalers and reported another prediction
C19_Witness ==
    /\ pc = "returned" /\ Len(runs) = 2
    /\ runs[1].outcome = "reported" /\ runs[2].outcome = "reported"
    /\ runs[1].excelData # runs[2].excelData
    /\ runs[1].featureScaler # runs[2].featureScaler
    /\ runs[1].labelScaler # runs[2].labelScaler
    /\ ReportOf(1) # ReportOf(2)

\* C20: no step of a run, from its invocation to its return, changes the bar
\* sequence it was given; when the run has returned, aborted or not, the
\* sequence is the one recorded at the end of the run, and the training set of
\* a run that went on is a copy of all its bars but the last.
C20_BarsNeverModified ==
    /\ [][pc \notin {"idle", "returned"} => excelData' = excelData]_vars
    /\ [](pc = "returned" =>
            /\ runs[Len(runs)].excelData = excelData
            /\ runs[Len(runs)].outcome = "reported" =>
                  /\ Len(excelData) = Len(trainingSet) + 1
                  /\ \A k \in 1..Len(trainingSet) : excelData[k] = trainingSet[k]
                  /\ excelData[Len(excelData)] = dayToEvaluate)

\* a run has sliced its bars twice and reported, after a run on other bars
C20_Witness ==
    /\ pc = "returned" /\ Len(runs) = 2
    /\ runs[1].outcome = "reported" /\ runs[2].outcome = "reported"
    /\ runs[1].excelData # excelData
    /\ lastDayFeatures_raw # None
    /\ trainingSet # excelData

\* the histories x and y are the same but for the close, high, low and volume
\* of the last day
SameButEvaluationDay(x, y) ==
    /\ Len(x) = Len(y)
    /\ \A k \in 1..(Len(x) - 1) : x[k] = y[k]
    /\ x[Len(x)].open = y[Len(y)].open

\* C26: two runs whose bars differ only in the close, high, low or volume of
\* the last bar, given the same open, train on the same set, fit the same
\* scalers and model, build the same prediction row and report the same
\* predicted close; the actual close each reports is the close of its own
\* last bar.
C26_PredictionIgnoresEvaluationDay ==
    /\ \A a \in ReportedRuns : \A b \in ReportedRuns :
          (/\ SameButEvaluationDay(runs[a].excelData, runs[b].excelData)
           /\ runs[a].newOpenPrice = runs[b].newOpenPrice) =>
              /\ runs[a].trainingSet = runs[b].trainingSet
              /\ runs[a].featureScaler = runs[b].featureScaler
              /\ runs[a].labelScaler = runs[b].labelScaler
              /\ runs[a].regression = runs[b].regression
              /\ runs[a].row = runs[b].row
              /\ runs[a].predictedClose = runs[b].predictedClose
              /\ ReportOf(a)[1] = ReportOf(b)[1]
    /\ \A n \in ReportedRuns :
          /\ ReportOf(n)[1] = runs[n].predictedClose
          /\ ReportOf(n)[2] = runs[n].excelData[Len(runs[n].excelData)].close

\* two runs reported on histories that differ in the last day's close, high,
\* low and volume: the same predicted close, other actual closes
C26_Witness ==
    /\ Len(runs) = 2
    /\ runs[1].outcome = "reported" /\ runs[2].outcome = "reported"
    /\ runs[1].excelData # runs[2].excelData
    /\ SameButEvaluationDay(runs[1].excelData, runs[2].excelData)
    /\ runs[1].newOpenPrice = runs[2].newOpenPrice
    /\ ReportOf(1)[1] = ReportOf(2)[1]
    /\ ReportOf(1)[2] # ReportOf(2)[2]

\* C28: whenever a run passes the length validation (len(bars) >=
\* LOOKBACK_PERIOD + 2), prepareLaggedData on the training set returns at
\* least one row, with as many labels, so the second insufficient-history
\* abort (empty X) is never taken and both scalers are fitted on a non-empty
\* matrix.
C28_ValidatedRunHasTrainingRows ==
    /\ ~Reported("notEnoughData")
    /\ (~TooFewBars(excelData) /\ pc \notin {"idle", "validate", "split", "prepare"}) =>
          /\ Len(X_raw) >= 1 /\ Len(Y_raw) = Len(X_raw)
          /\ Len(X_raw) = Len(trainingSet) - LOOKBACK_PERIOD
    /\ pc \in {"scaleTraining", "train", "buildRow", "scaleRow", "predict",
               "inverseScale", "report"} =>
          /\ Len(featureScaler.min) = Len(X_raw[1]) /\ Len(featureScaler.max) = Len(X_raw[1])
          /\ Len(labelScaler.min) = 1 /\ Len(labelScaler.max) = 1
    /\ \A n \in 1..Len(runs) :
          ~TooFewBars(runs[n].excelData) => runs[n].outcome = "reported"

\* a run on the shortest history that passes the validation has prepared its
\* single training row and fitted both scalers on it
C28_Witness ==
    /\ pc = "scaleTraining" /\ Len(excelData) = LOOKBACK_PERIOD + 2
    /\ Len(X_raw) = 1 /\ Len(featureScaler.min) = 9 /\ Len(labelScaler.min) = 1

\* ------------------------------------------------------- properties: main
\* C29 (as stated): every bar handed to the strategy is made of the open,
\* high, low, close and volume of one and the same sheet row whenever the
\* columns returned by getOhlcvArrays pass the equal-length check of
\* transformOhlcv, and otherwise the transform throws and no strategy runs.
C29_BarsAreSheetRows ==
    /\ pc # "idle" =>
          \A k \in 1..Len(excelData) :
              \E r \in 1..Len(sheetRows) : excelData[k] = sheetRows[r]
    /\ (ohlcv # None /\ ColumnsRagged(ohlcv)) => pc = "idle"

\* C17 (as stated): after a failure of the data source (symbol update error,
\* polling timeout, OHLCV fetch error) the strategy is never invoked and no
\* prediction is reported.
C17_DataSourceFailureAborts ==
    failures # {} => (pc = "idle" /\ ~Reported("predictedClose"))

\* --------------------------------------- properties: GoogleSheetManager
\* C23 (as stated): getCellValue returns the parsed {open, close, pp, high,
\* low} object on the first polling attempt at which every requested cell
\* holds a valid finite number; it returns null only when no such attempt
\* occurs before the wait time runs out or the symbol update fails.
C23_ReturnsQuoteOnFirstValidRead ==
    /\ Len(currentValues) = NumCells => (mPc = "fetch" /\ val = Quote)
    /\ val = Null => ("symbolUpdate" \in failures \/ Len(currentValues) # NumCells)

\* C24 (as stated): in both getStockClosePrice and getCellValue, when the
\* maximum wait time is found to be reached before a read (computed wait
\* time <= 0), the PollingError raised is handled inside the function: the
\* function returns null and no exception escapes to the caller.
C24_PollingErrorHandledInside ==
    "pollingError" \in failures =>
        (mPc \in {"fetch", "priceReturned"} /\ val = Null)

\* C27: after any sequence of getInstance calls, with equal or different
\* spreadsheet ids, exactly one GoogleSheetManager (and one authorized client)
\* has been constructed, the last call returned that instance, the instance
\* never changes once it exists, and its spreadsheetId is the id passed to
\* the first call.
C27_SingleInstance ==
    /\ [](ids # <<>> =>
            /\ constructed = 1
            /\ instance # None
            /\ handle = instance
            /\ instance.spreadsheetId = ids[1]
            /\ instance.sheets = "authorized")
    /\ [][instance # None => instance' = instance]_vars

\* getInstance was called with one id and then with another, and returned
\* the manager of the first id
C27_Witness ==
    /\ Len(ids) >= 2 /\ ids[2] # ids[1] /\ ids[Len(ids)] # ids[1]
    /\ handle # None /\ handle.spreadsheetId = ids[1]

\* the polling loop is at its head, and at its read
AtLoopHead == mPc \in {"pollCheck", "priceLoop"}
AtRead == mPc \in {"pollRead", "priceRead"}

\* the first attempt reads without waiting
FirstAttemptAtOnce ==
    (AtLoopHead /\ attempts = 0 /\ AtRead') => elapsed' = elapsed

\* before a later attempt the loop waits min(POLL_INTERVAL_MS, remaining
\* time), a positive time of at most the poll interval
LaterAttemptWaits ==
    (AtLoopHead /\ attempts >= 1 /\ AtRead') =>
        \E d \in Delays :
            LET waited == elapsed' - (elapsed + d)
            IN  /\ 0 < waited /\ waited <= POLL_INTERVAL_MS
                /\ waited = MinInt(POLL_INTERVAL_MS, MAX_WAIT_TIME_MS - (elapsed + d))

\* a read that does not end the call leads back to the head of the loop
PollsOnAfterRead ==
    (AtRead /\ mPc' # mPc /\ val' = val) => (AtLoopHead' /\ attempts' = attempts)

\* once the maximum wait time has elapsed the loop ends and null is returned
ReturnsNullWhenTimeIsUp ==
    (AtLoopHead /\ mPc' # mPc /\ elapsed >= MAX_WAIT_TIME_MS) =>
        (mPc' \in {"fetch", "priceReturned"} /\ val' = Null)

\* C30 (as stated): every call of getStockClosePrice and getCellValue
\* terminates by returning a value or null: the polling loop makes a first
\* attempt without waiting, waits a positive time of at most the poll interval
\* before each later attempt, keeps polling after a failed or invalid read,
\* makes a bounded number of attempts, returns null once the maximum wait time
\* has elapsed, and never ends by an exception reaching the caller.
C30_PollingReturns ==
    /\ [](mPc # "caught")
    /\ [](attempts <= MAX_WAIT_TIME_MS \div POLL_INTERVAL_MS + 2)
    /\ [][FirstAttemptAtOnce]_vars
    /\ [][LaterAttemptWaits]_vars
    /\ [][PollsOnAfterRead]_vars
    /\ [][ReturnsNullWhenTimeIsUp]_vars

\* ------------------------------------------ properties: indicator helpers
\* the closes of bars lo .. hi never fall from one day to the next
NonDecreasing(bars, lo, hi) ==
    \A i \in (lo + 1)..hi : FLe(Bar(bars, i - 1).close, Bar(bars, i).close)

\* C11: calculateRSI returns exactly 50 for every index < period, and for
\* index >= period it returns exactly 100 whenever no close falls below the
\* close of the day before across the period day-over-day differences ending
\* at index (the closes of bars index-period .. index), all closes equal
\* included.
C11_RsiSentinels ==
    iCall = "rsi" =>
        /\ iIndex < iPeriod => iRet = Num(50)
        /\ (iIndex >= iPeriod /\ NonDecreasing(data, iIndex - iPeriod, iIndex)) =>
              iRet = Num(100)

\* the RSI of a window of equal closes, and of one that rises and pauses,
\* came out as 100
C11_Witness ==
    /\ iCall = "rsi" /\ iPeriod >= 2 /\ iIndex >= iPeriod /\ iRet = Num(100)
    /\ NonDecreasing(data, iIndex - iPeriod, iIndex)
    /\ Bar(data, iIndex).close = Bar(data, iIndex - 1).close

\* max(high - low, |high - prevClose|, |low - prevClose|) for bar i, the
\* previous close being that of bar i-1, or the bar's own for bar 0
TrueRangeOfDay(bars, i) ==
    LET b == Bar(bars, i)
        prevClose == IF i = 0 THEN b.close ELSE Bar(bars, i - 1).close
        a1 == FSub(b.high, b.low)
        a2 == FAbs(FSub(b.high, prevClose))
        a3 == FAbs(FSub(b.low, prevClose))
        m12 == IF FLt(a1, a2) THEN a2 ELSE a1
    IN  IF FLt(m12, a3) THEN a3 ELSE m12

\* the mean of the true range over the days lo .. hi, summed oldest first
MeanTrueRange(bars, lo, hi) ==
    LET Sum[i \in (lo - 1)..hi] ==
            IF i < lo THEN Num(0) ELSE FAdd(Sum[i - 1], TrueRangeOfDay(bars, i))
    IN  FDiv(Sum[hi], Num(hi - lo + 1))

\* C12: calculateATR returns exactly 0 for every index < period, and for
\* index >= period the mean of the true range of the period bars
\* index-period .. index-1, the previous close of bar 0 being its own close;
\* replacing bars[index] or any later bar leaves the result unchanged.
C12_AtrWindow ==
    iCall = "atr" =>
        /\ iIndex < iPeriod => iRet = Num(0)
        /\ iIndex >= iPeriod =>
            /\ iRet = MeanTrueRange(data, iIndex - iPeriod, iIndex - 1)
            /\ \A j \in iIndex..(Len(data) - 1) : \A b \in IndBars :
                  calculateATR([data EXCEPT ![j + 1] = b], iIndex, iPeriod) = iRet

\* an ATR over a window that starts at bar 0 and holds a gap between a close
\* and the next day's range, with a later bar in the history
C12_Witness ==
    /\ iCall = "atr" /\ iPeriod >= 2 /\ iIndex = iPeriod /\ iIndex < Len(data)
    /\ iRet # Num(0)
    /\ iRet # FDiv(SumTR_OwnClose(data, 0, iIndex, Num(0)), Num(iPeriod))

\* the mean of the closes of the days lo .. hi, summed oldest first
MeanClose(bars, lo, hi) ==
    LET Sum[i \in (lo - 1)..hi] ==
            IF i < lo THEN Num(0) ELSE FAdd(Sum[i - 1], Bar(bars, i).close)
    IN  FDiv(Sum[hi], Num(hi - lo + 1))

\* C21: calculateSMA(bars, index, period) returns, for index >= period, the
\* mean of the closes at indices index-period .. index-1, whatever the bar at
\* index is, and for index < period the close of the bar at index, or 0 when
\* there is no bar at index.
C21_SmaWindow ==
    iCall = "sma" =>
        /\ iIndex >= iPeriod =>
            /\ iRet = MeanClose(data, iIndex - iPeriod, iIndex - 1)
            /\ iIndex < Len(data) =>
                  \A b \in IndBars :
                      calculateSMA([data EXCEPT ![iIndex + 1] = b], iIndex, iPeriod) = iRet
        /\ iIndex < iPeriod =>
              iRet = IF iIndex < Len(data) THEN Bar(data, iIndex).close ELSE Num(0)

\* an SMA over two or more days whose closes differ, the day at index closing
\* elsewhere than the day before it
C21_Witness ==
    /\ iCall = "sma" /\ iPeriod >= 2 /\ iIndex >= iPeriod /\ iIndex < Len(data)
    /\ Bar(data, iIndex).close # Bar(data, iIndex - 1).close
    /\ Bar(data, iIndex - 1).close # Bar(data, iIndex - 2).close
    /\ iRet # Bar(data, iIndex).close

\* the RSI of the period day-over-day changes of the close ending at day
\* index, the first of them from day index-period to the next
WindowRsi(bars, index, period) ==
    LET Change(i) == FSub(Bar(bars, i).close, Bar(bars, i - 1).close)
        Gain[i \in (index - period)..index] ==
            IF i = index - period THEN Num(0)
            ELSE IF FLt(Num(0), Change(i)) THEN FAdd(Gain[i - 1], Change(i))
            ELSE Gain[i - 1]
        Loss[i \in (index - period)..index] ==
            IF i = index - period THEN Num(0)
            ELSE IF FLt(Num(0), Change(i)) THEN Loss[i - 1]
            ELSE FAdd(Loss[i - 1], FAbs(Change(i)))
        avgGain == FDiv(Gain[index], Num(period))
        avgLoss == FDiv(Loss[index], Num(period))
    IN  IF avgLoss = Num(0) THEN Num(100)
        ELSE FSub(Num(100), FDiv(Num(100), FAdd(Num(1), FDiv(avgGain, avgLoss))))

\* C25 (as stated): for every feature row emitted by prepareLaggedData (every
\* i from LOOKBACK_PERIOD to len(data)-1), each indicator component is
\* computed from a full lookback history: the ATR component is the mean true
\* range of the LOOKBACK_PERIOD days before day i and the RSI component is the
\* RSI of the LOOKBACK_PERIOD changes ending at day i-1, neither call taking
\* its insufficient-history path.
C25_FullLookbackForEveryRow ==
    built # None =>
        \A k \in 1..Len(built.X) :
            LET i == LOOKBACK_PERIOD + k - 1
            IN  /\ i - LOOKBACK_PERIOD >= 0
                /\ built.X[k][7] = MeanTrueRange(data, i - LOOKBACK_PERIOD, i - 1)
                /\ (i - 1) - LOOKBACK_PERIOD >= 0
                /\ built.X[k][8] = WindowRsi(data, i - 1, LOOKBACK_PERIOD)

====
